---- MODULE Spec2Model ----
(***************************************************************************)
(* ROI export: the hierarchy walk (MyWalker), the ROI curator (ROICurator), *)
(* the DICOM member resolver (get_roi_dicom_file), the aggregation          *)
(* (acquire_rois) and the top level (main).                                 *)
(*                                                                          *)
(* Strings that the code searches or rewrites (UIDs, archive member paths)  *)
(* are sequences of one-character strings.  Python's None is the one-       *)
(* element sequence None below when it stands where a UID or a path could   *)
(* stand, and the string "None" where a label could stand.                  *)
(***************************************************************************)
EXTENDS Integers, Sequences, FiniteSets, TLC

\* ------------------------------------------------------------------ bounds
MaxSubjects == 2
MaxSessions == 2
MaxAcquisitions == 2
MaxFiles == 2
MaxMembers == 3

\* ----------------------------------------------------------- program data
POSSIBLE_KEYS == <<"ohifViewer", "roi">>
SUPPORTED_ROIS == {"RectangleRoi", "EllipticalRoi"}
Columns ==
  {"Group", "Project", "Subject", "Session", "Acquisition", "File",
   "Dicom Member", "File Type", "location", "description", "X min", "X max",
   "Y min", "Y max", "User Origin", "ROI type", "area", "count", "max",
   "mean", "min", "stdDev", "variance"}
OUTPUT_TEMPLATE == [c \in Columns |-> <<>>]
NO_MATCHES_FOUND == <<"NO MATCHES FOUND">>
NO_SOP_MATCH == <<"NO SOP MATCH">>
None == <<"None">>

\* ---------------------------------------------------------------- strings
\* Python's `s in t` on two strings.
IsSubstr(s, t) ==
  \E i \in 0..(Len(t) - Len(s)) : SubSeq(t, i + 1, i + Len(s)) = s

\* str.replace('_', '.')
ReplaceUnderscore(s) == [i \in 1..Len(s) |-> IF s[i] = "_" THEN "." ELSE s[i]]

RECURSIVE Concat(_)
Concat(ss) == IF ss = <<>> THEN <<>> ELSE Head(ss) \o Concat(Tail(ss))

Min2(a, b) == IF a <= b THEN a ELSE b
Max2(a, b) == IF a >= b THEN a ELSE b

\* ------------------------------------------------------------------ state
VARIABLES
  repo,     \* the repository fixture the run reads (never written)
  pc,       \* where main / the direct call stands
  deque,    \* MyWalker.deque
  visited,  \* the containers the walk has yielded, in order
  cur,      \* the result of the last curate_container call
  table,    \* acquire_rois' output_dict
  exported, \* whether the export file has been written
  status,   \* main's return value (-1 while running)
  call,     \* direct calls: the arguments
  res       \* direct calls: the result

vars == <<repo, pc, deque, visited, cur, table, exported, status, call, res>>

\* ------------------------------------------------------------- containers
\* A node of the hierarchy: kind, the indices of its subject / session /
\* acquisition ancestors-or-self (0: none) and, for a file or an analysis,
\* its position in the parent's listing.
Node(kind, s, e, a, n) == [kind |-> kind, s |-> s, e |-> e, a |-> a, n |-> n]
Project == Node("project", 0, 0, 0, 0)
NoNode == Node("none", 0, 0, 0, 0)

\* element.subjects() / .sessions() / .acquisitions()
Children(c) ==
  IF c.kind = "project" THEN [i \in 1..repo.N |-> Node("subject", i, 0, 0, 0)]
  ELSE IF c.kind = "subject" THEN [j \in 1..repo.M |-> Node("session", c.s, j, 0, 0)]
  ELSE IF c.kind = "session" THEN [k \in 1..repo.K |-> Node("acquisition", c.s, c.e, k, 0)]
  ELSE <<>>

\* element.reload().files
Files(c) ==
  IF c.kind = "acquisition" THEN [f \in 1..repo.F |-> Node("file", c.s, c.e, c.a, f)]
  ELSE [f \in 1..repo.X |-> Node("file", c.s, c.e, c.a, f)]

\* element.reload().analyses
Analyses(c) == [f \in 1..repo.A |-> Node("analysis", c.s, c.e, c.a, f)]

\* The stored attributes of a file: type, info["StudyInstanceUID"],
\* info["SeriesInstanceUID"], name, and the archive's member listing.
PlainFile ==
  [type |-> "nifti", study |-> None, series |-> None,
   name |-> <<"notes", "nii", "gz">>, members |-> <<>>]
Attr(f) == IF f.a > 0 THEN repo.fattr[f.a][f.n] ELSE PlainFile


\* Which repository call is down in this run ("none": all of them answer).
Down(what) == repo.fail = what

\* ------------------------------------------------- get_roi_dicom_file
\* The result of a call: the returned string, the exception that left the
\* call ("none": it returned), the archive members read (positions in the
\* listing, in the order of the reads), the file selected and the number of
\* files that matched study+series.
Result(ret, fault, reads, file, nmatch) ==
  [ret |-> ret, fault |-> fault, reads |-> reads, file |-> file, nmatch |-> nmatch]

\* Lines 629-648: the files in scope, in listing order.
ScopeFiles(o) ==
  IF o.kind = "file" THEN <<o>>
  ELSE IF o.kind = "acquisition" THEN Files(o)
  ELSE Concat([k \in 1..Len(Children(o)) |-> Files(Children(o)[k])])

\* Whether collecting the files in scope calls reload().
ScopeReloads(o) ==
  \/ o.kind = "acquisition"
  \/ o.kind = "session" /\ Len(Children(o)) > 0

\* Line 651: the filter by file type, study UID and series UID.
MatchesStudySeries(f, study_uid, series_uid) ==
  /\ Attr(f).type = "dicom"
  /\ Attr(f).study = study_uid
  /\ Attr(f).series = series_uid

Candidates(o, study_uid, series_uid) ==
  SelectSeq(ScopeFiles(o), LAMBDA f : MatchesStudySeries(f, study_uid, series_uid))

\* file = files[-1]
SelectFile_Last(files) == files[Len(files)]

\* Line 661: file = files[0]
SelectFile(files) == files[1]

\* The first pass with `sop_uid == p['path']` for `sop_uid in p['path']`.
FastMatches_ExactPath(members, sop_uid) ==
  SelectSeq(members, LAMBDA p : p.path = sop_uid)

\* Line 669: the members whose path contains sop_uid, in listing order.
FastMatches(members, sop_uid) ==
  SelectSeq(members, LAMBDA p : IsSubstr(sop_uid, p.path))

\* The second pass with every member downloaded before the comparison.
SlowPath_ReadsAll(members, i, sop_uid, reads, file, nmatch) ==
  LET all == reads \o [j \in 1..(Len(members) - i + 1) |-> i + j - 1]
      hits == {j \in i..Len(members) : members[j].sop = sop_uid}
  IN
  IF hits = {} THEN Result(NO_SOP_MATCH, "none", all, file, nmatch)
  ELSE Result(members[CHOOSE j \in hits : \A k \in hits : j <= k].path,
              "none", all, file, nmatch)

\* The second pass with a loop that stops one member short.
RECURSIVE SlowPath_StopsShort(_, _, _, _, _, _)
SlowPath_StopsShort(members, i, sop_uid, reads, file, nmatch) ==
  IF i >= Len(members)
    THEN Result(NO_SOP_MATCH, "none", reads, file, nmatch)
  ELSE IF members[i].sop = sop_uid
    THEN Result(members[i].path, "none", Append(reads, i), file, nmatch)
  ELSE SlowPath_StopsShort(members, i + 1, sop_uid, Append(reads, i), file, nmatch)

\* Lines 678-685: read the members one by one until one declares sop_uid.
\* i is the position of the member to read next, reads the reads so far.
RECURSIVE SlowPath(_, _, _, _, _, _)
SlowPath(members, i, sop_uid, reads, file, nmatch) ==
  IF i > Len(members)
    THEN Result(NO_SOP_MATCH, "none", reads, file, nmatch)
  ELSE IF Down("read_member")
    THEN Result(None, "AccessError", reads, file, nmatch)
  ELSE IF members[i].sop = sop_uid
    THEN Result(members[i].path, "none", Append(reads, i), file, nmatch)
  ELSE SlowPath(members, i + 1, sop_uid, Append(reads, i), file, nmatch)

GetRoiDicomFile(o, study_uid, series_uid, sop_uid) ==
  IF o.kind \notin {"file", "acquisition", "session"}
    THEN Result(None, "UnboundLocalError", <<>>, NoNode, 0)
  ELSE IF ScopeReloads(o) /\ Down("reload")
    THEN Result(None, "AccessError", <<>>, NoNode, 0)
  ELSE
    LET files == Candidates(o, study_uid, series_uid) IN
    IF Len(files) = 0
      THEN Result(NO_MATCHES_FOUND, "none", <<>>, NoNode, 0)
    ELSE
      LET file == SelectFile(files)
          members == Attr(file).members
          n == Len(files)
      IN
      IF Down("zip_info")
        THEN Result(None, "AccessError", <<>>, file, n)
      ELSE IF sop_uid = None /\ Len(members) > 0
        THEN Result(None, "TypeError", <<>>, file, n)
      ELSE IF sop_uid # None /\ Len(FastMatches(members, sop_uid)) > 0
        THEN Result(FastMatches(members, sop_uid)[1].path, "none", <<>>, file, n)
      ELSE SlowPath(members, 1, sop_uid, <<>>, file, n)

\* ----------------------------------------------------------- the curator
\* KNOWN_EXTENSIONS.get(suffix, suffix[1:]) on "".join(name.suffixes[-2:]);
\* a name is the sequence of its dot-separated parts, and so is the result.
FileType(name) ==
  LET n == Len(name) IN
  IF n < 2 THEN <<>>
  ELSE IF n = 2
    THEN (IF name[n] \in {"dcm", "dicom"} THEN <<"DICOM">>
          ELSE IF name[n] = "nii" THEN <<"NIFTI">> ELSE <<name[n]>>)
  ELSE IF name[n - 1] = "nii" /\ name[n] = "gz" THEN <<"NIFTI">>
  ELSE <<name[n - 1], name[n]>>

\* get_file_hierarchy: the labels of the group, project, subject, session
\* and acquisition above a file.  A label is the index of the container
\* (0: Python's None); the group and the project are always there.
GetFileHierarchy(f) ==
  IF f.s > 0 /\ Down("get")
    THEN [fault |-> "AccessError", group |-> "None", project |-> "None",
          subject |-> 0, session |-> 0, acquisition |-> 0]
  ELSE [fault |-> "none", group |-> "g", project |-> "p",
        subject |-> f.s, session |-> f.e, acquisition |-> f.a]

NoHierarchy(fault) ==
  [fault |-> fault, group |-> "None", project |-> "None", subject |-> 0,
   session |-> 0, acquisition |-> 0, file |-> NoNode, file_name |-> None,
   file_type |-> None]

\* Line 215: f.info.get("SeriesInstanceUID", "").replace('_', '.')
StoredSeries(f) ==
  IF Attr(f).series = None THEN <<>> ELSE ReplaceUnderscore(Attr(f).series)

\* Lines 204-215: the dicom files of the session whose series UID is file_id.
SeriesMatches(session, file_id) ==
  SelectSeq(ScopeFiles(session),
            LAMBDA f : Attr(f).type = "dicom" /\ StoredSeries(f) = file_id)

\* get_roi_hierarchy
GetRoiHierarchy(session, roi) ==
  LET file_id == roi.seriesInstanceUid IN
  IF file_id = None THEN NoHierarchy("none")
  ELSE IF Len(Children(session)) > 0 /\ Down("reload") THEN NoHierarchy("AccessError")
  ELSE
    LET my_file == SeriesMatches(session, file_id) IN
    IF Len(my_file) = 0 THEN NoHierarchy("none")
    ELSE
      LET f == my_file[1]
          h == GetFileHierarchy(f)
      IN
      [fault |-> h.fault, group |-> h.group, project |-> h.project,
       subject |-> h.subject, session |-> h.session,
       acquisition |-> h.acquisition, file |-> f,
       file_name |-> Attr(f).name, file_type |-> FileType(Attr(f).name)]

\* process_generic_roi without the fall-back from "location" to "label".
ProcessGenericRoi_LocationOnly(roi) ==
  [fault |-> IF roi.start.has /\ roi.end.has THEN "none" ELSE "TypeError",
   description |-> roi.description,
   label |-> roi.location,
   x_start |-> IF roi.start.has /\ roi.end.has THEN Min2(roi.start.x, roi.end.x) ELSE 0,
   y_start |-> IF roi.start.has /\ roi.end.has THEN Min2(roi.start.y, roi.end.y) ELSE 0,
   x_end |-> IF roi.start.has /\ roi.end.has THEN Max2(roi.start.x, roi.end.x) ELSE 0,
   y_end |-> IF roi.start.has /\ roi.end.has THEN Max2(roi.start.y, roi.end.y) ELSE 0,
   user_origin |-> IF roi.updatedById # "None" THEN roi.updatedById ELSE roi.originId,
   cached_stats |-> roi.cachedStats]

\* process_generic_roi taking the start handle for the smallest and the end
\* handle for the largest coordinates.
ProcessGenericRoi_StartEnd(roi) ==
  [fault |-> IF roi.start.has /\ roi.end.has THEN "none" ELSE "TypeError",
   description |-> roi.description,
   label |-> IF roi.location # "None" THEN roi.location ELSE roi.label,
   x_start |-> roi.start.x, y_start |-> roi.start.y,
   x_end |-> roi.end.x, y_end |-> roi.end.y,
   user_origin |-> IF roi.updatedById # "None" THEN roi.updatedById ELSE roi.originId,
   cached_stats |-> roi.cachedStats]

\* process_generic_roi.  A handle that is missing yields None coordinates
\* and min() / max() of a tuple holding None raise TypeError.
ProcessGenericRoi(roi) ==
  LET label == IF roi.location # "None" THEN roi.location ELSE roi.label
      user == IF roi.updatedById # "None" THEN roi.updatedById ELSE roi.originId
      ok == roi.start.has /\ roi.end.has
  IN
  [fault |-> IF ok THEN "none" ELSE "TypeError",
   description |-> roi.description,
   label |-> label,
   x_start |-> IF ok THEN Min2(roi.start.x, roi.end.x) ELSE 0,
   y_start |-> IF ok THEN Min2(roi.start.y, roi.end.y) ELSE 0,
   x_end |-> IF ok THEN Max2(roi.start.x, roi.end.x) ELSE 0,
   y_end |-> IF ok THEN Max2(roi.start.y, roi.end.y) ELSE 0,
   user_origin |-> user,
   cached_stats |-> roi.cachedStats]

\* cached_stats.get(name, 0)
Stat(cached_stats, name) ==
  IF name \in DOMAIN cached_stats THEN cached_stats[name] ELSE 0

\* The row appended for one ROI (the append block of both namespaces).
Row(h, file_name, file_type, dicom_member, g, roi_type) ==
  [c \in Columns |->
     CASE c = "Group" -> h.group
       [] c = "Project" -> h.project
       [] c = "Subject" -> h.subject
       [] c = "Session" -> h.session
       [] c = "Acquisition" -> h.acquisition
       [] c = "File" -> file_name
       [] c = "Dicom Member" -> dicom_member
       [] c = "File Type" -> file_type
       [] c = "location" -> g.label
       [] c = "description" -> g.description
       [] c = "X min" -> g.x_start
       [] c = "X max" -> g.x_end
       [] c = "Y min" -> g.y_start
       [] c = "Y max" -> g.y_end
       [] c = "User Origin" -> g.user_origin
       [] c = "ROI type" -> roi_type
       [] OTHER -> Stat(g.cached_stats, c)]

AppendRow(output_dict, row) ==
  [c \in DOMAIN output_dict |-> Append(output_dict[c], row[c])]

\* What a curate call hands back: the exception that left it ("none": it
\* returned), whether it returned a dict or None, and the dict.
Curated(fault, kind, rows) == [fault |-> fault, kind |-> kind, rows |-> rows]
Faulted(fault) == Curated(fault, "None", <<>>)

\* roi.get(lower, roi.get(upper))
GetEither(lower, upper) == IF lower # None THEN lower ELSE upper

\* process_namespace_roi, from the i-th record of the list on.
RECURSIVE NamespaceRoiFrom(_, _, _, _)
NamespaceRoiFrom(rois, i, file, output_dict) ==
  IF i > Len(rois) THEN Curated("none", "dict", output_dict)
  ELSE
    LET roi == rois[i] IN
    IF roi.toolType \notin {"rectangleRoi", "ellipticalRoi"}
      THEN NamespaceRoiFrom(rois, i + 1, file, output_dict)
    ELSE
      LET d == GetRoiDicomFile(file, roi.studyInstanceUid,
                               roi.seriesInstanceUid, roi.sopInstanceUid)
          h == GetFileHierarchy(file)
          g == ProcessGenericRoi(roi)
      IN
      IF d.fault # "none" THEN Faulted(d.fault)
      ELSE IF h.fault # "none" THEN Faulted(h.fault)
      ELSE IF g.fault # "none" THEN Faulted(g.fault)
      ELSE NamespaceRoiFrom(rois, i + 1, file,
             AppendRow(output_dict,
                       Row(h, Attr(file).name, FileType(Attr(file).name),
                           d.ret, g, roi.toolType)))

ProcessNamespaceRoi(roi_namespace, file) ==
  NamespaceRoiFrom(roi_namespace, 1, file, OUTPUT_TEMPLATE)

\* Lines 381-453: the records of one shape type, from the i-th on.
RECURSIVE OhifRoisFrom(_, _, _, _, _)
OhifRoisFrom(session, roi_type, rois, i, output_dict) ==
  IF i > Len(rois) THEN Curated("none", "dict", output_dict)
  ELSE
    LET roi == rois[i]
        study_uid == GetEither(roi.studyInstanceUid, roi.StudyInstanceUID)
        series_uid == GetEither(roi.seriesInstanceUid, roi.SeriesInstanceUID)
        sop_uid == GetEither(roi.sopInstanceUid, roi.SOPInstanceUID)
        d == GetRoiDicomFile(session, study_uid, series_uid, sop_uid)
        h == GetRoiHierarchy(session, roi)
        g == ProcessGenericRoi(roi)
    IN
    IF d.fault # "none" THEN Faulted(d.fault)
    ELSE IF h.fault # "none" THEN Faulted(h.fault)
    ELSE IF g.fault # "none" THEN Faulted(g.fault)
    ELSE IF h.group = "None"
      THEN OhifRoisFrom(session, roi_type, rois, i + 1, output_dict)
    ELSE OhifRoisFrom(session, roi_type, rois, i + 1,
           AppendRow(output_dict,
                     Row(h, h.file_name, h.file_type, d.ret, g, roi_type)))

\* Lines 372-378: the shape-type buckets of "measurements", from the b-th on.
RECURSIVE OhifBucketsFrom(_, _, _, _)
OhifBucketsFrom(session, roi_namespace, b, output_dict) ==
  IF b > Len(roi_namespace) THEN Curated("none", "dict", output_dict)
  ELSE IF roi_namespace[b].type \notin SUPPORTED_ROIS
    THEN OhifBucketsFrom(session, roi_namespace, b + 1, output_dict)
  ELSE
    LET r == OhifRoisFrom(session, roi_namespace[b].type,
                          roi_namespace[b].rois, 1, output_dict)
    IN
    IF r.fault # "none" THEN r
    ELSE OhifBucketsFrom(session, roi_namespace, b + 1, r.rows)

ProcessNamespaceOhifViewer(session, roi_namespace) ==
  OhifBucketsFrom(session, roi_namespace, 1, OUTPUT_TEMPLATE)

\* A container's info is the sequence of its top-level entries, in the
\* order of the keys: the key, the kind of the value ("dict", "list" or
\* "str"), the "measurements" sub-map of a dict (a sequence of shape-type
\* buckets, empty when the dict has none) and the records of a list.
InfoHas(info, key) == \E i \in 1..Len(info) : info[i].key = key
InfoGet(info, key) == info[CHOOSE i \in 1..Len(info) : info[i].key = key]

SessionInfo(session) == repo.sinfo
FileInfo(file) == repo.finfo

\* curate_session, lines 546-552, from the i-th key of session.info on.
RECURSIVE CurateSessionFrom(_, _, _, _)
CurateSessionFrom(session, info, i, output_dict) ==
  IF i > Len(info) THEN output_dict
  ELSE IF info[i].vkind # "dict" THEN Faulted("AttributeError")
  ELSE
    LET r == ProcessNamespaceOhifViewer(session, info[i].measurements) IN
    IF r.fault # "none" THEN r
    ELSE CurateSessionFrom(session, info, i + 1, r)

CurateSession(session) ==
  IF Down("reload") THEN Faulted("AccessError")
  ELSE CurateSessionFrom(session, SessionInfo(session), 1,
                         Curated("none", "dict", <<>>))

\* The session a file's acquisition belongs to (file.parent.parents.session).
ParentSession(file) ==
  IF file.a > 0 THEN Node("session", file.s, file.e, 0, 0) ELSE NoNode

\* curate_file, lines 575-607, from the i-th of POSSIBLE_KEYS on.
RECURSIVE CurateFileFrom(_, _, _)
CurateFileFrom(file, i, output_dict) ==
  IF i > Len(POSSIBLE_KEYS) THEN output_dict
  ELSE
    LET pk == POSSIBLE_KEYS[i]
        info == FileInfo(file)
    IN
    IF ~InfoHas(info, pk) THEN CurateFileFrom(file, i + 1, output_dict)
    ELSE IF pk = "roi"
      THEN IF InfoGet(info, pk).vkind # "list" THEN Faulted("AttributeError")
           ELSE LET r == ProcessNamespaceRoi(InfoGet(info, pk).rois, file) IN
                IF r.fault # "none" THEN r ELSE CurateFileFrom(file, i + 1, r)
    ELSE IF InfoGet(info, pk).vkind # "dict" THEN Faulted("AttributeError")
    ELSE IF ParentSession(file) = NoNode
      THEN CurateFileFrom(file, i + 1, output_dict)
    ELSE IF Down("get") THEN Faulted("AccessError")
    ELSE LET r == ProcessNamespaceOhifViewer(ParentSession(file),
                                             InfoGet(info, pk).measurements)
         IN
         IF r.fault # "none" THEN r ELSE CurateFileFrom(file, i + 1, r)

CurateFile(file) ==
  CurateFileFrom(file, 1, Curated("none", "dict", OUTPUT_TEMPLATE))

\* curate_container.  valid is the answer of the kind's validate_* hook.
\* curate_project / _subject / _acquisition / _analysis are the base class's
\* and return None; when the hook answers False, output_dict is never bound
\* and `return output_dict` raises UnboundLocalError.
CurateContainer(container, valid) ==
  IF ~valid THEN Faulted("UnboundLocalError")
  ELSE IF container.kind = "session" THEN CurateSession(container)
  ELSE IF container.kind = "file" THEN CurateFile(container)
  ELSE Curated("none", "None", <<>>)

\* ------------------------------------------------------------ acquire_rois
\* The test of lines 60-62 reduced to `if container_dict is not None`.
HasRois_AnyDict(container_dict) == container_dict.kind = "dict"

\* Lines 60-62: whether a container's result is folded into the table.
HasRois(container_dict) ==
  /\ container_dict.kind = "dict"
  /\ "Group" \in DOMAIN container_dict.rows
  /\ container_dict.rows["Group"] # <<>>

\* Lines 64-68: the fold of one container's columns onto the table.
Extend(output_dict, rows) ==
  [d \in DOMAIN output_dict \cup DOMAIN rows |->
     IF d \notin DOMAIN rows THEN output_dict[d]
     ELSE IF d \in DOMAIN output_dict THEN output_dict[d] \o rows[d]
     ELSE rows[d]]

Aggregate(output_dict, container_dict) ==
  IF HasRois(container_dict) THEN Extend(output_dict, container_dict.rows)
  ELSE output_dict

\* ------------------------------------------------------------------- main
\* save_df_to_csv(df, output_dir): df.to_csv(...).  Only a DataFrame has
\* to_csv; on any other object the attribute lookup raises AttributeError
\* and nothing is written.
SaveDfToCsv(df) ==
  IF df.type = "DataFrame" THEN [fault |-> "none", written |-> TRUE]
  ELSE [fault |-> "AttributeError", written |-> FALSE]

\* save_csv(output_dict, path): pd.DataFrame.from_dict(output_dict).to_csv(path,
\* index=False).  The header is the frame's columns, which are the keys of
\* the dict; the rows are as many as the columns are long.
SaveCsv(output_dict) ==
  [header |-> DOMAIN output_dict,
   rows |-> IF "Group" \in DOMAIN output_dict THEN Len(output_dict["Group"]) ELSE 0]

\* What acquire_rois returns to main: output_dict, a plain dict.
AcquireRoisReturn(output_dict) == [type |-> "dict", columns |-> output_dict]

\* queue_children without the session -> acquisitions branch.
QueueChildren_SkipsAcquisitions(element) ==
  IF element.kind \in {"file", "analysis"} THEN <<>>
  ELSE IF element.kind = "session" THEN Files(element) \o Analyses(element)
  ELSE Files(element) \o Analyses(element) \o Children(element)

\* queue_children with the child containers enqueued before the files.
QueueChildren_ChildrenFirst(element) ==
  IF element.kind \in {"file", "analysis"} THEN <<>>
  ELSE Children(element) \o Files(element) \o Analyses(element)

\* queue_children without the early return for files (lines 20-21).
QueueChildren_FilesHaveAnalyses(element) ==
  IF element.kind = "analysis" THEN <<>>
  ELSE IF element.kind = "file" THEN Analyses(element)
  ELSE Files(element) \o Analyses(element) \o Children(element)

\* MyWalker.queue_children: the elements appended to the deque.
QueueChildren(element) ==
  IF element.kind \in {"file", "analysis"} THEN <<>>
  ELSE Files(element) \o Analyses(element) \o Children(element)

\* queue_children that never calls the repository.
QueueReloads_Never(element) == FALSE

\* Whether queue_children calls the repository (element.reload()).
QueueReloads(element) == element.kind \notin {"file", "analysis"}

\* Walker.next: the end of the deque the next element is taken from.
NextIndex == IF repo.depth_first THEN Len(deque) ELSE 1
Remaining ==
  IF repo.depth_first THEN SubSeq(deque, 1, Len(deque) - 1) ELSE Tail(deque)

\* main, lines 42-46, up to the construction of the walker on the project.
MainStart ==
  /\ pc = "start"
  /\ IF Down("get")
       THEN /\ pc' = "done"
            /\ status' = 1
            /\ deque' = deque
       ELSE /\ pc' = "walk"
            /\ status' = status
            /\ deque' = <<Project>>
  /\ UNCHANGED <<repo, visited, cur, table, exported, call, res>>

\* One turn of acquire_rois' loop: the walker takes the next element and
\* queues its children, the curator curates it, the result is folded into
\* the table.  An exception leaves acquire_rois and main returns 1.
WalkNext ==
  /\ pc = "walk"
  /\ deque # <<>>
  /\ IF QueueReloads(deque[NextIndex]) /\ Down("reload")
       THEN /\ pc' = "done"
            /\ status' = 1
            /\ deque' = Remaining
            /\ UNCHANGED <<visited, cur, table>>
       ELSE /\ deque' = Remaining \o QueueChildren(deque[NextIndex])
            /\ visited' = Append(visited, deque[NextIndex])
            /\ cur' = [node |-> deque[NextIndex],
                       out |-> CurateContainer(deque[NextIndex], TRUE)]
            /\ pc' = IF cur'.out.fault # "none" THEN "done" ELSE pc
            /\ status' = IF cur'.out.fault # "none" THEN 1 ELSE status
            /\ table' = IF cur'.out.fault # "none" THEN table
                        ELSE Aggregate(table, cur'.out)
  /\ UNCHANGED <<repo, exported, call, res>>

\* The walk is over: acquire_rois returns the table and main exports it
\* (lines 48-56).
Export ==
  /\ pc = "walk"
  /\ deque = <<>>
  /\ LET w == SaveDfToCsv(AcquireRoisReturn(table)) IN
     /\ exported' = w.written
     /\ status' = IF w.fault = "none" THEN 0 ELSE 1
  /\ pc' = "done"
  /\ UNCHANGED <<repo, deque, visited, cur, table, call, res>>

Next == MainStart \/ WalkNext \/ Export

\* --------------------------------------------------------------- fixtures
U1 == <<"1", ".", "2">>
U2 == <<"1", ".", "3">>
S1 == <<"4", ".", "5">>
S1u == <<"4", "_", "5">>
S2 == <<"4", ".", "6">>
SopA == <<"7">>
SopB == <<"8">>
Digits == <<"1", "2", "3", "4", "5", "6">>

Member(path, sop) == [path |-> path, sop |-> sop]
FileAttr(type, study, series, name, members) ==
  [type |-> type, study |-> study, series |-> series, name |-> name,
   members |-> members]

\* The archive of file f of acquisition k keeps its members under k/f/.
InArchive(k, f, members) ==
  [i \in 1..Len(members) |->
     Member(<<Digits[k], "/", Digits[f], "/">> \o members[i].path, members[i].sop)]

Placed(k, f, attr) == [attr EXCEPT !.members = InArchive(k, f, attr.members)]

MembersFast == <<Member(<<"x">>, SopB), Member(<<"a", "7", "b">>, SopA)>>
MembersSlow == <<Member(<<"x">>, SopB), Member(<<"y">>, SopA)>>
MembersNone == <<Member(<<"x">>, SopB)>>

ZipName == <<"scan", "dicom", "zip">>
DcmName == <<"img", "dcm">>

FileKinds ==
  {FileAttr("dicom", U1, S1, ZipName, MembersFast),
   FileAttr("dicom", U1, S1, ZipName, MembersSlow),
   FileAttr("dicom", U1, S1, DcmName, MembersNone),
   FileAttr("dicom", U1, S1u, ZipName, MembersFast),
   FileAttr("dicom", None, None, ZipName, MembersNone),
   FileAttr("nifti", U1, S1, <<"vol", "nii", "gz">>, <<>>)}

Point(x, y) == [has |-> TRUE, x |-> x, y |-> y]
NoPoint == [has |-> FALSE, x |-> 0, y |-> 0]
NoStats == [n \in {} |-> 0]

\* A well-formed record that names study, series and SOP UID.
GoodRoi ==
  [toolType |-> "rectangleRoi",
   studyInstanceUid |-> U1, seriesInstanceUid |-> S1, sopInstanceUid |-> SopA,
   StudyInstanceUID |-> None, SeriesInstanceUID |-> None, SOPInstanceUID |-> None,
   location |-> "liver", label |-> "lesion", description |-> "first",
   start |-> Point(1, 2), end |-> Point(3, 4),
   updatedById |-> "user", originId |-> "origin",
   cachedStats |-> [n \in {"area", "mean"} |-> 5]]

Rois ==
  {GoodRoi,
   [GoodRoi EXCEPT !.start = Point(3, 4), !.end = Point(1, 2),
                   !.location = "None", !.cachedStats = NoStats],
   [GoodRoi EXCEPT !.location = "None", !.label = "None", !.updatedById = "None"],
   [GoodRoi EXCEPT !.toolType = "ellipticalRoi", !.start = Point(1, 4),
                   !.end = Point(3, 2)],
   [GoodRoi EXCEPT !.toolType = "length"],
   [GoodRoi EXCEPT !.start = NoPoint],
   [GoodRoi EXCEPT !.start = NoPoint, !.end = NoPoint, !.seriesInstanceUid = S2],
   [GoodRoi EXCEPT !.seriesInstanceUid = S2],
   [GoodRoi EXCEPT !.studyInstanceUid = U2],
   [GoodRoi EXCEPT !.sopInstanceUid = None],
   [GoodRoi EXCEPT !.sopInstanceUid = SopB],
   [GoodRoi EXCEPT !.studyInstanceUid = None, !.seriesInstanceUid = None,
                   !.sopInstanceUid = None],
   [GoodRoi EXCEPT !.studyInstanceUid = None, !.seriesInstanceUid = None,
                   !.sopInstanceUid = None, !.StudyInstanceUID = U1,
                   !.SeriesInstanceUID = S1, !.SOPInstanceUID = SopA]}

Entry(key, vkind, measurements, rois) ==
  [key |-> key, vkind |-> vkind, measurements |-> measurements, rois |-> rois]
Bucket(type, rois) == [type |-> type, rois |-> rois]
Viewer(measurements) == Entry("ohifViewer", "dict", measurements, <<>>)
Simple(rois) == Entry("roi", "list", <<>>, rois)
Other(key, vkind) == Entry(key, vkind, <<>>, <<>>)

\* "measurements" sub-maps: one record, two records, two shape types, a
\* shape type outside SUPPORTED_ROIS.
Measurements ==
  {<<Bucket("RectangleRoi", <<r>>)>> : r \in Rois}
  \cup {<<Bucket("RectangleRoi", <<r, GoodRoi>>)>> : r \in Rois}
  \cup {<<Bucket("Length", <<GoodRoi>>), Bucket("EllipticalRoi", <<GoodRoi>>)>>,
        <<Bucket("Length", <<GoodRoi>>)>>, <<>>}

SessionInfos ==
  {<<>>}
  \cup {<<Viewer(m)>> : m \in Measurements}
  \cup {<<Viewer(<<Bucket("RectangleRoi", <<GoodRoi>>)>>), Other("notes", "dict")>>,
        <<Other("notes", "dict"), Viewer(<<Bucket("RectangleRoi", <<GoodRoi>>)>>)>>,
        <<Viewer(<<Bucket("RectangleRoi", <<GoodRoi>>)>>), Other("notes", "str")>>,
        <<Viewer(<<Bucket("RectangleRoi", <<GoodRoi>>)>>), Simple(<<GoodRoi>>)>>}

FileInfos ==
  {<<>>}
  \cup {<<Simple(<<r>>)>> : r \in Rois}
  \cup {<<Simple(<<r, GoodRoi>>)>> : r \in Rois}
  \cup {<<Viewer(<<Bucket("RectangleRoi", <<r>>)>>)>> : r \in Rois}
  \cup {<<Viewer(<<Bucket("EllipticalRoi", <<GoodRoi>>)>>), Simple(<<r>>)>> : r \in Rois}
  \cup {<<Simple(<<GoodRoi>>), Viewer(<<Bucket("EllipticalRoi", <<GoodRoi>>)>>)>>}

Fails == {"none", "get", "reload", "zip_info", "read_member"}

\* A repository: N subjects of M sessions of K acquisitions of F files, X
\* files and A analyses on every other container, the files' attributes,
\* the info of the sessions and of the files, and the call that is down.
Repo(N, M, K, F, X, A, fattr, sinfo, finfo, depth_first, fail) ==
  [N |-> N, M |-> M, K |-> K, F |-> F, X |-> X, A |-> A, fattr |-> fattr,
   sinfo |-> sinfo, finfo |-> finfo, depth_first |-> depth_first, fail |-> fail]

\* Every file of acquisition k has the attributes kinds[k].
FilesOf(K, F, kinds) == [k \in 1..K |-> [f \in 1..F |-> Placed(k, f, kinds[k])]]

\* Projects of every shape, without ROI metadata.
ShapeRepos ==
  {Repo(N, M, K, F, X, A,
        FilesOf(K, F, [k \in 1..K |-> FileAttr("dicom", U1, S1, ZipName, MembersFast)]),
        <<>>, <<>>, df, fail) :
     N \in 0..MaxSubjects, M \in 0..MaxSessions, K \in 0..MaxAcquisitions,
     F \in 0..1, X \in 0..1, A \in 0..1, df \in BOOLEAN,
     fail \in {"none"}}

\* The first acquisition holds files of one kind, the others of another.
TwoKinds(a, b) == [k \in 1..(MaxAcquisitions + 1) |-> IF k = 1 THEN a ELSE b]

\* One session whose info carries ROI records.
SessionRepos ==
  {Repo(1, 1, K, F, 0, 0, FilesOf(K, F, TwoKinds(a, b)), sinfo, <<>>, TRUE, "none") :
     K \in 1..MaxAcquisitions, F \in 1..MaxFiles, a \in FileKinds,
     b \in FileKinds, sinfo \in SessionInfos}

\* Files whose info carries ROI records, under acquisitions and above.
FileRepos ==
  {Repo(1, 1, K, F, X, 0, FilesOf(K, F, TwoKinds(a, a)), <<>>, finfo, TRUE, "none") :
     K \in 1..MaxAcquisitions, F \in 1..MaxFiles, X \in 0..1, a \in FileKinds,
     finfo \in FileInfos}

\* Runs in which one repository call is down.
FailRepos ==
  {Repo(1, 1, K, 1, 0, 0, FilesOf(K, 1, TwoKinds(a, a)),
        <<Viewer(<<Bucket("RectangleRoi", <<GoodRoi>>)>>)>>, finfo, TRUE, fail) :
     K \in 0..MaxAcquisitions, a \in FileKinds,
     finfo \in {<<>>, <<Simple(<<GoodRoi>>)>>}, fail \in Fails \ {"none"}}

NoCur == [node |-> NoNode, out |-> Faulted("none")]
NoCall ==
  [op |-> "none", scope |-> NoNode, study_uid |-> None, series_uid |-> None,
   sop_uid |-> None, valid |-> TRUE]
NoRes == Result(None, "none", <<>>, NoNode, 0)

Init ==
  /\ \/ repo \in ShapeRepos
     \/ repo \in SessionRepos
     \/ repo \in FileRepos
     \/ repo \in FailRepos
  /\ pc = "start"
  /\ deque = <<>>
  /\ visited = <<>>
  /\ cur = NoCur
  /\ table = <<>>
  /\ exported = FALSE
  /\ status = -1
  /\ call = NoCall
  /\ res = NoRes

Spec == Init /\ [][Next]_vars

\* ----------------------------------------------------------- direct calls
\* get_roi_dicom_file and curate_container applied to drawn arguments.
SeqsUpTo(S, n) == UNION {[1..m -> S] : m \in 0..n}

CallMembers ==
  SeqsUpTo({Member(<<"x">>, SopB), Member(<<"a", "7", "b">>, SopB),
            Member(<<"y">>, SopA)}, MaxMembers)

CallKinds(members) ==
  {FileAttr("dicom", U1, S1, ZipName, members),
   FileAttr("nifti", U1, S1, ZipName, members),
   FileAttr("dicom", None, None, DcmName, members)}

ResolveRepos ==
  UNION {{Repo(1, 1, K, F, 0, 0, FilesOf(K, F, TwoKinds(a, b)), <<>>, <<>>,
               TRUE, "none") :
            K \in 1..MaxAcquisitions, F \in 1..MaxFiles,
            a \in CallKinds(members), b \in CallKinds(members)} :
         members \in CallMembers}

Scopes(r) ==
  {Node("session", 1, 1, 0, 0), Node("subject", 1, 0, 0, 0)}
  \cup {Node("acquisition", 1, 1, k, 0) : k \in 1..r.K}
  \cup {Node("file", 1, 1, k, f) : k \in 1..r.K, f \in 1..r.F}

Requests ==
  {<<U1, S1, SopA>>, <<U1, S1, SopB>>, <<U1, S1, None>>, <<None, None, SopA>>,
   <<U2, S1, SopA>>}

ResolveCall(scope, q) ==
  [op |-> "resolve", scope |-> scope, study_uid |-> q[1], series_uid |-> q[2],
   sop_uid |-> q[3], valid |-> TRUE]

CurateRepos ==
  {Repo(1, 1, 1, 1, 1, 1, FilesOf(1, 1, TwoKinds(a, a)), sinfo, finfo, TRUE, "none") :
     a \in FileKinds, sinfo \in SessionInfos,
     finfo \in {<<>>, <<Simple(<<GoodRoi>>)>>}}

Containers ==
  {Project, Node("subject", 1, 0, 0, 0), Node("session", 1, 1, 0, 0),
   Node("acquisition", 1, 1, 1, 0), Node("analysis", 1, 1, 0, 1),
   Node("file", 1, 1, 1, 1), Node("file", 1, 1, 0, 1)}

CurateCall(container, valid) ==
  [op |-> "curate", scope |-> container, study_uid |-> None,
   series_uid |-> None, sop_uid |-> None, valid |-> valid]

InitCall ==
  /\ \/ /\ \/ repo \in ResolveRepos
              \/ repo \in FailRepos
        /\ \E scope \in Scopes(repo), q \in Requests : call = ResolveCall(scope, q)
     \/ /\ repo \in CurateRepos
        /\ \E c \in Containers, valid \in BOOLEAN : call = CurateCall(c, valid)
  /\ pc = "call"
  /\ deque = <<>>
  /\ visited = <<>>
  /\ cur = NoCur
  /\ table = <<>>
  /\ exported = FALSE
  /\ status = -1
  /\ res = NoRes

\* get_roi_dicom_file(fw_object, study_uid, series_uid, sop_uid)
CallResolve ==
  /\ pc = "call"
  /\ call.op = "resolve"
  /\ res' = GetRoiDicomFile(call.scope, call.study_uid, call.series_uid, call.sop_uid)
  /\ pc' = "returned"
  /\ UNCHANGED <<repo, deque, visited, cur, table, exported, status, call>>

\* curate_container(container)
CallCurate ==
  /\ pc = "call"
  /\ call.op = "curate"
  /\ cur' = [node |-> call.scope, out |-> CurateContainer(call.scope, call.valid)]
  /\ pc' = "returned"
  /\ UNCHANGED <<repo, deque, visited, res, table, exported, status, call>>

NextCall == CallResolve \/ CallCurate

SpecCall == InitCall /\ [][NextCall]_vars

\* ------------------------------------------------------------- properties
Range(q) == {q[i] : i \in 1..Len(q)}
OfKind(q, kinds) == SelectSeq(q, LAMBDA c : c.kind \in kinds)
NoRepeats(q) == \A i, j \in 1..Len(q) : i # j => q[i] # q[j]

\* The walk has yielded every element: acquire_rois is about to return.
WalkOver == pc = "walk" /\ deque = <<>>

\* C1: no node is ever yielded twice, and when the walk over a project of
\* N subjects of M sessions of K acquisitions is over it has yielded
\* exactly N + NM + NMK containers below the project, and every file
\* attached to a container it yielded.
C1_WalkVisitsEachNodeOnce ==
  /\ NoRepeats(visited)
  /\ WalkOver =>
       /\ Len(OfKind(visited, {"subject", "session", "acquisition"}))
            = repo.N + repo.N * repo.M + repo.N * repo.M * repo.K
       /\ Len(OfKind(visited, {"project"})) = 1
       /\ \A c \in Range(visited) :
            c.kind \notin {"file", "analysis"} => Range(Files(c)) \subseteq Range(visited)
       /\ \A f \in Range(OfKind(visited, {"file"})) :
            \E c \in Range(visited) :
              c.kind \notin {"file", "analysis"} /\ f \in Range(Files(c))

C1_Witness ==
  /\ WalkOver
  /\ repo.N = 2 /\ repo.M = 2 /\ repo.K = 2 /\ repo.F = 1 /\ repo.X = 1
  /\ Len(OfKind(visited, {"subject", "session", "acquisition"})) = 14
  /\ Len(OfKind(visited, {"file"})) = 15

RowCount(out) == IF "Group" \in DOMAIN out.rows THEN Len(out.rows["Group"]) ELSE 0

\* The info holds nothing but the known ROI-bearing keys, each with a value
\* of the shape the curator reads (a dict for the viewer key, a list for the
\* simple key).
RoiKeysOnly(info) ==
  \A i \in 1..Len(info) :
    \/ info[i].key = "ohifViewer" /\ info[i].vkind = "dict"
    \/ info[i].key = "roi" /\ info[i].vkind = "list"

\* C2: whatever the ROI records in the metadata of a session or a file look
\* like, curate_container raises only when a repository call fails.
C2_MalformedRoiNeverRaises ==
  ( /\ \/ cur.node.kind = "session" /\ RoiKeysOnly(SessionInfo(cur.node))
          /\ ~InfoHas(SessionInfo(cur.node), "roi")
       \/ cur.node.kind = "file" /\ RoiKeysOnly(FileInfo(cur.node))
    /\ cur.out.fault # "none" )
  => (repo.fail # "none" /\ cur.out.fault = "AccessError")

\* C3: a record for which get_roi_dicom_file answered "NO MATCHES FOUND"
\* has no row in the table of acquire_rois.
C3_UnmatchedRecordNotInTable ==
  "Dicom Member" \in DOMAIN table =>
    \A i \in 1..Len(table["Dicom Member"]) :
      table["Dicom Member"][i] # NO_MATCHES_FOUND

\* C4: curating a file whose info carries both the viewer key and the
\* simple key returns the rows of the viewer records and the rows of the
\* simple records.
C4_BothKeysProcessed ==
  ( /\ cur.node.kind = "file"
    /\ ParentSession(cur.node) # NoNode
    /\ RoiKeysOnly(FileInfo(cur.node))
    /\ InfoHas(FileInfo(cur.node), "ohifViewer")
    /\ InfoHas(FileInfo(cur.node), "roi")
    /\ cur.out.fault = "none" )
  => RowCount(cur.out)
       = RowCount(ProcessNamespaceOhifViewer(
                    ParentSession(cur.node),
                    InfoGet(FileInfo(cur.node), "ohifViewer").measurements))
         + RowCount(ProcessNamespaceRoi(InfoGet(FileInfo(cur.node), "roi").rois,
                                        cur.node))

\* A direct call of get_roi_dicom_file has returned or raised.
Resolved == pc = "returned" /\ call.op = "resolve"
Selected == Attr(res.file).members
PathHits == {i \in 1..Len(Selected) : IsSubstr(call.sop_uid, Selected[i].path)}
SopHits == {i \in 1..Len(Selected) : Selected[i].sop = call.sop_uid}
Least(S) == CHOOSE i \in S : \A j \in S : i <= j
UpTo(n) == [j \in 1..n |-> j]

C6_SlowPathStopsAtFirstMatch ==
  ( /\ Resolved
    /\ res.file # NoNode
    /\ call.sop_uid # None
    /\ PathHits = {}
    /\ SopHits # {}
    /\ ~Down("zip_info") /\ ~Down("read_member") )
  => /\ res.fault = "none"
     /\ res.ret = Selected[Least(SopHits)].path
     /\ res.reads = UpTo(Least(SopHits))

C6_Witness ==
  /\ Resolved
  /\ res.file # NoNode
  /\ call.sop_uid # None
  /\ Len(Selected) = 3
  /\ PathHits = {}
  /\ SopHits = {2, 3}
  /\ res.ret = Selected[2].path
  /\ res.reads = <<1, 2>>

\* C7: when a file matched but neither pass finds a member, every member
\* has been read once and the call returns "NO SOP MATCH"; a call that
\* returns at all returns a member path of the selected archive, "NO
\* MATCHES FOUND" or "NO SOP MATCH".
C7_ExhaustedReturnsNoSopMatch ==
  /\ ( /\ Resolved
       /\ res.file # NoNode
       /\ call.sop_uid # None \/ Selected = <<>>
       /\ call.sop_uid # None => PathHits = {}
       /\ SopHits = {}
       /\ ~Down("zip_info") /\ ~Down("read_member") )
     => /\ res.fault = "none"
        /\ res.ret = NO_SOP_MATCH
        /\ res.reads = UpTo(Len(Selected))
  /\ (Resolved /\ res.fault = "none")
     => \/ res.ret = NO_MATCHES_FOUND /\ res.file = NoNode
        \/ res.ret = NO_SOP_MATCH /\ res.file # NoNode
        \/ res.file # NoNode /\ \E i \in 1..Len(Selected) : res.ret = Selected[i].path

C7_Witness ==
  /\ Resolved
  /\ res.file # NoNode
  /\ Len(Selected) = 3
  /\ call.sop_uid = SopA
  /\ res.ret = NO_SOP_MATCH
  /\ res.reads = <<1, 2, 3>>

\* The files in the scope of the call whose stored study and series equal
\* the requested ones, and the listing order: acquisitions in order, then
\* the files of an acquisition in order.
InScope(f, o) ==
  /\ f.s = o.s /\ f.e = o.e
  /\ o.kind = "acquisition" => f.a = o.a
AllFiles == {Node("file", 1, 1, k, f) : k \in 1..repo.K, f \in 1..repo.F}
Matching ==
  {f \in AllFiles : InScope(f, call.scope)
                    /\ MatchesStudySeries(f, call.study_uid, call.series_uid)}
SeriesMatching ==
  {f \in AllFiles : Attr(f).type = "dicom" /\ StoredSeries(f) = call.series_uid}
Before(f, g) == f.a < g.a \/ (f.a = g.a /\ f.n < g.n)
First(S) == CHOOSE f \in S : \A g \in S \ {f} : Before(f, g)

\* C8: when two or more files match study+series, the call goes on with
\* the first of them in listing order and does not fail for their number;
\* get_roi_hierarchy likewise takes the first file that matches the series.
C8_FirstMatchInListingOrder ==
  /\ ( /\ Resolved
       /\ call.scope.kind \in {"session", "acquisition"}
       /\ Cardinality(Matching) >= 2
       /\ ~Down("reload") )
     => /\ res.file = First(Matching)
        /\ res.nmatch = Cardinality(Matching)
        /\ (repo.fail = "none" /\ (call.sop_uid # None \/ Selected = <<>>))
           => /\ res.fault = "none"
              /\ \/ res.ret = NO_SOP_MATCH
                 \/ \E i \in 1..Len(Attr(First(Matching)).members) :
                      res.ret = Attr(First(Matching)).members[i].path
  /\ ( /\ Resolved
       /\ call.scope.kind = "session"
       /\ call.series_uid # None
       /\ Cardinality(SeriesMatching) >= 2
       /\ repo.fail = "none" )
     => GetRoiHierarchy(call.scope,
                        [GoodRoi EXCEPT !.seriesInstanceUid = call.series_uid]).file
          = First(SeriesMatching)

C8_Witness ==
  /\ Resolved
  /\ call.scope.kind = "session"
  /\ Cardinality(Matching) = 2
  /\ res.file = Node("file", 1, 1, 2, 1)
  /\ res.nmatch = 2
  /\ res.fault = "none"
  /\ \E i \in 1..Len(Selected) : res.ret = Selected[i].path

\* C9: curate_container on a project, a subject, an acquisition or an
\* analysis returns no rows and does not raise, whatever the kind's
\* validation hook answers.
C9_OtherKindsReturnNoRows ==
  ( /\ pc = "returned"
    /\ call.op = "curate"
    /\ cur.node.kind \in {"project", "subject", "acquisition", "analysis"} )
  => (cur.out.fault = "none" /\ RowCount(cur.out) = 0)

\* C10: a run of main in which no repository call fails exports the table
\* and ends with status 0.
C10_ExportedWithStatusZero ==
  (pc = "done" /\ repo.fail = "none") => (exported /\ status = 0)

\* The records of the viewer key of a session's info, in supported buckets.
ViewerRecords(info) ==
  IF ~InfoHas(info, "ohifViewer") THEN {}
  ELSE LET m == InfoGet(info, "ohifViewer").measurements IN
       UNION {Range(m[b].rois) : b \in {x \in 1..Len(m) : m[x].type \in SUPPORTED_ROIS}}

\* The archive that a record of the session makes the resolver open.
ArchiveAsked(session, roi) ==
  Candidates(session, GetEither(roi.studyInstanceUid, roi.StudyInstanceUID),
             GetEither(roi.seriesInstanceUid, roi.SeriesInstanceUID))

\* Curating the session lists an archive (zip_info) / reads a member of one.
ListsArchive(session) ==
  \E roi \in ViewerRecords(SessionInfo(session)) : ArchiveAsked(session, roi) # <<>>
ReadsMember(session) ==
  \E roi \in ViewerRecords(SessionInfo(session)) :
    /\ ArchiveAsked(session, roi) # <<>>
    /\ Attr(ArchiveAsked(session, roi)[1]).members # <<>>
    /\ \A p \in Range(Attr(ArchiveAsked(session, roi)[1]).members) :
         ~IsSubstr(GetEither(roi.sopInstanceUid, roi.SOPInstanceUID), p.path)

\* The walk stopped at its last yielded container on an access failure.
AbortedAt(i) ==
  /\ i = Len(visited)
  /\ pc = "done" /\ status = 1 /\ ~exported
  /\ cur.node = visited[i] /\ cur.out.fault = "AccessError"

\* C11: a repository call or an archive read that fails is swallowed
\* nowhere: fw.get failing stops main before the walk, reload failing stops
\* the walk at the project before anything is yielded, an archive listing or
\* member read failing stops the walk at the session being curated, and
\* every exception of the curator ends the run with status 1; and status 1
\* is returned only after a call of the guarded block raised.
C11_AccessFailureAbortsRun ==
  /\ cur.out.fault # "none" => (pc = "done" /\ status = 1 /\ ~exported)
  /\ repo.fail = "get" => (pc # "walk" /\ visited = <<>> /\ (pc = "done" => status = 1))
  /\ repo.fail = "reload" => (visited = <<>> /\ (pc = "done" => status = 1))
  /\ \A i \in 1..Len(visited) :
       ( /\ visited[i].kind = "session"
         /\ \/ repo.fail = "zip_info" /\ ListsArchive(visited[i])
            \/ repo.fail = "read_member" /\ ReadsMember(visited[i]) )
       => AbortedAt(i)
  /\ status = 1 =>
       /\ pc = "done"
       /\ \/ repo.fail \in {"get", "reload"}
          \/ cur.out.fault # "none"
          \/ deque = <<>> /\ SaveDfToCsv(AcquireRoisReturn(table)).fault # "none"

C11_Witness ==
  /\ repo.fail = "read_member"
  /\ pc = "done" /\ status = 1
  /\ cur.node.kind = "session" /\ cur.out.fault = "AccessError"
  /\ deque # <<>>
  /\ table = <<>>

\* C12: once the walk has yielded a container, the keys of the table of
\* acquire_rois are exactly the columns of OUTPUT_TEMPLATE and all of its
\* columns hold the same number of entries.
C12_TableHasTemplateColumns ==
  visited # <<>> =>
    /\ DOMAIN table = Columns
    /\ \A c, d \in DOMAIN table : Len(table[c]) = Len(table[d])

\* A column of the table before a fold (the table starts as the empty dict).
ColumnOf(output_dict, c) == IF c \in DOMAIN output_dict THEN output_dict[c] ELSE <<>>

\* C13: a turn of acquire_rois' loop whose container yields no row (None,
\* an empty dict, or a dict whose Group column is empty) leaves the table
\* exactly as it was; any other turn appends the container's entries to the
\* end of the same-named columns, so the table keeps the traversal order.
C13_FoldInOrderOrNoOp ==
  [][ visited' # visited =>
        IF RowCount(cur'.out) = 0 THEN table' = table
        ELSE /\ DOMAIN table' = DOMAIN table \cup DOMAIN cur'.out.rows
             /\ \A c \in DOMAIN table' :
                  table'[c] = ColumnOf(table, c) \o ColumnOf(cur'.out.rows, c) ]_vars

C13_Witness ==
  /\ WalkOver
  /\ repo.K = 2 /\ repo.F = 1
  /\ table # <<>>
  /\ table["Acquisition"] = <<2, 1>>
  /\ cur.node = Node("file", 1, 1, 1, 1)

\* C14: a run of main in which no call fails and no ROI is resolved writes
\* the export file, and the header of a file written from its zero-row
\* table is the full column set of OUTPUT_TEMPLATE.
C14_EmptyTableExportsHeader ==
  ( /\ pc = "done"
    /\ repo.fail = "none"
    /\ deque = <<>>
    /\ cur.out.fault = "none"
    /\ table = <<>> )
  => /\ exported
     /\ SaveCsv(table).header = Columns

\* The ROI records a container's info carries under the known keys.
SimpleRecords(info) ==
  IF InfoHas(info, "roi") THEN Range(InfoGet(info, "roi").rois) ELSE {}
RecordsOf(node) ==
  IF node.kind = "session" THEN ViewerRecords(SessionInfo(node))
  ELSE IF node.kind = "file"
    THEN ViewerRecords(FileInfo(node)) \cup SimpleRecords(FileInfo(node))
  ELSE {}
Smaller(a, b) == CHOOSE m \in {a, b} : \A n \in {a, b} : m <= n
Larger(a, b) == CHOOSE m \in {a, b} : \A n \in {a, b} : m >= n

\* C15: every row a curate call emits has X min <= X max and Y min <= Y max,
\* and its four bounds are the smaller and the larger x and the smaller and
\* the larger y of the two handles of a record of the curated container.
C15_BoundsAreMinMaxOfHandles ==
  \A i \in 1..RowCount(cur.out) :
    /\ cur.out.rows["X min"][i] <= cur.out.rows["X max"][i]
    /\ cur.out.rows["Y min"][i] <= cur.out.rows["Y max"][i]
    /\ \E r \in RecordsOf(cur.node) :
         /\ r.start.has /\ r.end.has
         /\ cur.out.rows["X min"][i] = Smaller(r.start.x, r.end.x)
         /\ cur.out.rows["X max"][i] = Larger(r.start.x, r.end.x)
         /\ cur.out.rows["Y min"][i] = Smaller(r.start.y, r.end.y)
         /\ cur.out.rows["Y max"][i] = Larger(r.start.y, r.end.y)
         /\ cur.out.rows["description"][i] = r.description

C15_Witness ==
  /\ cur.node.kind = "session"
  /\ RowCount(cur.out) = 2
  /\ \E r \in RecordsOf(cur.node) : r.start = Point(3, 4) /\ r.end = Point(1, 2)
  /\ cur.out.rows["location"][1] = "lesion"
  /\ cur.out.rows["X min"][1] = 1 /\ cur.out.rows["X max"][1] = 3
  /\ cur.out.rows["Y min"][1] = 2 /\ cur.out.rows["Y max"][1] = 4

\* The label the claim gives a record: "location", else "label", else None.
EmittedLabel(r) ==
  IF r.location # "None" THEN r.location
  ELSE IF r.label # "None" THEN r.label
  ELSE "None"
OriginOf(r) == IF r.updatedById # "None" THEN r.updatedById ELSE r.originId

\* C16: the location column of every emitted row is the "location" of the
\* record the row comes from, the record's "label" when it has no
\* "location", and None when it has neither; and a record that has neither
\* is extracted without an exception.
C16_LabelFallsBackToLabel ==
  /\ \A i \in 1..RowCount(cur.out) :
       \E r \in RecordsOf(cur.node) :
         /\ cur.out.rows["User Origin"][i] = OriginOf(r)
         /\ cur.out.rows["area"][i] = Stat(r.cachedStats, "area")
         /\ cur.out.rows["location"][i] = EmittedLabel(r)
  /\ \A r \in RecordsOf(cur.node) :
       (r.location = "None" /\ r.label = "None" /\ r.start.has /\ r.end.has)
       => /\ ProcessGenericRoi(r).fault = "none"
          /\ ProcessGenericRoi(r).label = "None"

C16_Witness ==
  /\ cur.node.kind = "session"
  /\ cur.out.fault = "none"
  /\ RowCount(cur.out) = 2
  /\ cur.out.rows["location"] = <<"None", "liver">>
  /\ cur.out.rows["User Origin"] = <<"origin", "user">>
  /\ \E r \in RecordsOf(cur.node) : r.location = "None" /\ r.label = "None"

\* C17: when the walker takes a file or an analysis, queue_children adds
\* nothing: the deque afterwards is the deque without the element taken,
\* whatever files, analyses or children the repository lists under it.
C17_LeavesQueueNothing ==
  [][ ( /\ pc = "walk"
        /\ deque # <<>>
        /\ deque[NextIndex].kind \in {"file", "analysis"} )
      => /\ deque' = Remaining
         /\ Len(deque') = Len(deque) - 1
         /\ visited' = Append(visited, deque[NextIndex]) ]_vars

C17_Witness ==
  /\ pc = "walk"
  /\ visited # <<>>
  /\ visited[Len(visited)].kind = "file"
  /\ visited[Len(visited)].a = 0
  /\ repo.X = 1 /\ repo.A = 1
  /\ Len(Files(visited[Len(visited)])) = 1
  /\ Len(Analyses(visited[Len(visited)])) = 1
  /\ Len(deque) = 1
  /\ deque[1].kind = "analysis"

\* The position of a kind in the order queue_children enqueues: files, then
\* analyses, then child containers; and the kind of a container's children.
QueueRank(kind) == IF kind = "file" THEN 1 ELSE IF kind = "analysis" THEN 2 ELSE 3
NextLevel(kind) ==
  IF kind = "project" THEN "subject"
  ELSE IF kind = "subject" THEN "session"
  ELSE IF kind = "session" THEN "acquisition"
  ELSE "none"
Added == SubSeq(deque', Len(Remaining) + 1, Len(deque'))

FilesUnder(session) == Range(ScopeFiles(session))

\* C19: every row curate_session emits names, in its File and Acquisition
\* columns, the file in whose archive its Dicom Member was looked up: the
\* Dicom Member is never "NO MATCHES FOUND", and it is "NO SOP MATCH" or
\* the path of a member of the archive of the file the row names.
C19_FileAndMemberAgree ==
  (cur.node.kind = "session" /\ cur.out.fault = "none")
  => \A i \in 1..RowCount(cur.out) :
       /\ cur.out.rows["Dicom Member"][i] # NO_MATCHES_FOUND
       /\ \E f \in FilesUnder(cur.node) :
            /\ f.a = cur.out.rows["Acquisition"][i]
            /\ Attr(f).name = cur.out.rows["File"][i]
            /\ \/ cur.out.rows["Dicom Member"][i] = NO_SOP_MATCH
               \/ \E p \in Range(Attr(f).members) :
                    p.path = cur.out.rows["Dicom Member"][i]

\* What the "ohifViewer" entry of a session's info yields on its own.
ViewerAlone(session) ==
  ProcessNamespaceOhifViewer(session,
                             InfoGet(SessionInfo(session), "ohifViewer").measurements)

\* C20: curate_session returns what the "ohifViewer" measurements of the
\* session's info yield, rows and exception alike, whichever other keys the
\* info has and wherever they stand; without that key it returns no rows.
C20_OnlyViewerKeyMatters ==
  (cur.node.kind = "session" /\ repo.fail = "none")
  => IF InfoHas(SessionInfo(cur.node), "ohifViewer")
       THEN /\ cur.out.fault = ViewerAlone(cur.node).fault
            /\ RowCount(cur.out) = RowCount(ViewerAlone(cur.node))
            /\ cur.out.fault = "none" => cur.out.rows = ViewerAlone(cur.node).rows
       ELSE cur.out.fault = "none" /\ RowCount(cur.out) = 0
====
